---- MODULE Spec2Model ----
(***************************************************************************)
(* Model of src/src/DownloadLineage.py: the Downloader that fetches the    *)
(* version manifest, checks the default lineages on local disk, downloads  *)
(* and extracts lineage archives and answers has_local_lineage.            *)
(*                                                                         *)
(* A file is represented by a content identifier; md5 maps a content to    *)
(* its digest.  A text line is a sequence of tokens, each token being a    *)
(* whitespace character or an indivisible word.  A path is a triple        *)
(* <<kind, lineage, date>>.  An exception is a record [cls, msg].          *)
(***************************************************************************)
EXTENDS Integers, Sequences, FiniteSets, TLC

VARIABLES fs, lineage_description, pc, idx, runs, calls, lastOp, confirmed, text

vars == <<fs, lineage_description, pc, idx, runs, calls, lastOp, confirmed, text>>

(* ----------------------------- bounds ---------------------------------- *)
MaxRuns == 2
MaxCalls == 2
MaxLines == 2

(* ---------------------- names, paths, contents ------------------------- *)
default_lineage == <<"archaea_odb10", "bacteria_odb10", "eukaryota_odb10">>

MainLineages == {"thiotrichales_odb10", "tunavirinae"}

Lineages == {default_lineage[i] : i \in 1..Len(default_lineage)} \cup MainLineages

Dates == {"2020-03-06"}

download_dir == <<"downloads", "", "">>
hash_download_path == <<"file_versions.tsv.hash", "", "">>
file_version_download_path == <<"file_versions.tsv", "", "">>
download_path(lineage, date) == <<"tar.gz", lineage, date>>
local_lineage_dir(lineage) == <<"dir", lineage, "">>
refseq_path(lineage) == <<"refseq_db.faa.gz", lineage, "">>

hash_url == <<"url:file_versions.tsv.hash", "", "">>
file_version_url == <<"url:file_versions.tsv", "", "">>
remote_url(lineage, date) == <<"url:lineages", lineage, date>>

Paths ==
    {download_dir, hash_download_path, file_version_download_path}
        \cup {download_path(l, d) : l \in Lineages, d \in Dates}
        \cup {local_lineage_dir(l) : l \in Lineages}
        \cup {refseq_path(l) : l \in Lineages}

Absent == "absent"
IsDir == "dir"
Unreachable == "unreachable"

(* Archives a remote may serve: tarA is the genuine archive, tarB another. *)
Archives == {"tarA", "tarB"}
HashFiles == {"hash1", "hash2"}
Manifests == {"tsv1", "tsv2"}
(* the manifest whose lines are the variable text, and its hash file       *)
TextManifest == "tsvT"
TextHashFile == "hashT"

(* refseq_db.faa.gz stored inside an archive                               *)
ArchiveRefseq(c) == IF c = "tarA" THEN "faaA" ELSE "faaB"

WS == {" ", "\t", "\n"}

A == "archaea_odb10"
B == "bacteria_odb10"
E == "eukaryota_odb10"
T == "thiotrichales_odb10"
D1 == "2020-03-06"

Row(strain, hash_value, category, info) ==
    <<strain, "\t", D1, "\t", hash_value, "\t", category, "\t", info, "\n">>

ManifestLines(c) ==
    CASE c = "tsv1" -> << Row(A, "h1", "prokaryota", "lineages"),
                          Row(B, "h1", "prokaryota", "lineages"),
                          Row(E, "h1", "eukaryota", "lineages"),
                          Row(T, "h1", "prokaryota", "lineages"),
                          Row("list_of_reference_markers", "h9", "placement", "placement_files") >>
      [] c = "tsv2" -> << Row(A, "h1", "prokaryota", "lineages"),
                          Row(B, "h1", "prokaryota", "lineages"),
                          Row(T, "h1", "prokaryota", "lineages") >>
      [] OTHER      -> text

HashFileLines(c) ==
    CASE c = "hash1" -> << <<"m1", "\n">> >>
      [] c = "hash2" -> << <<" ", "m2", "\n">>, <<"m1", "\n">> >>
      [] OTHER      -> << <<"mT", "\n">> >>

(* ------------------------------- md5 ----------------------------------- *)
md5sum(c) ==
    CASE c = "tarA" -> "h1"
      [] c = "tarB" -> "h2"
      [] c = "faaA" -> "r1"
      [] c = "faaB" -> "r2"
      [] c = "tsv1" -> "m1"
      [] c = "tsv2" -> "m2"
      [] c = "tsvT" -> "mT"
      [] OTHER      -> "0"

md5(f, fname) == md5sum(f[fname])

(* --------------------------- exceptions -------------------------------- *)
URLError == "DownloadLineage.URLError"
TransportError == "urllib.error.URLError"

NoExc == [cls |-> "none", msg |-> ""]
Exc(c, m) == [cls |-> c, msg |-> m]
UnableToDownload == Exc("Error", "Unable to download necessary files")
InvalidLineageName == Exc("Error", "invalid lineage name")

BaseClass(c) ==
    CASE c = URLError -> "OSError"
      [] c = TransportError -> "OSError"
      [] c = "FileNotFoundError" -> "OSError"
      [] c = "KeyError" -> "LookupError"
      [] c = "BaseException" -> "BaseException"
      [] OTHER -> IF c = "Exception" THEN "BaseException" ELSE "Exception"

RECURSIVE IsSubclass(_, _)
IsSubclass(c, d) ==
    IF c = d THEN TRUE
    ELSE IF c = "BaseException" THEN FALSE
    ELSE IsSubclass(BaseClass(c), d)

Catches(handler, e) == e.cls # "none" /\ IsSubclass(e.cls, handler)

(* --------------------------- text helpers ------------------------------ *)
RECURSIVE LStrip(_)
LStrip(s) == IF s # <<>> /\ Head(s) \in WS THEN LStrip(Tail(s)) ELSE s

RECURSIVE RStrip(_)
RStrip(s) ==
    IF s # <<>> /\ s[Len(s)] \in WS THEN RStrip(SubSeq(s, 1, Len(s) - 1)) ELSE s

Strip(s) == RStrip(LStrip(s))

Split(s) == SelectSeq(s, LAMBDA t : t \notin WS)

Word(s) == IF s = <<>> THEN "" ELSE s[1]

Readline(lines) == IF lines = <<>> THEN <<>> ELSE lines[1]

(* ----------------------------- catalog --------------------------------- *)
EmptyDict == [k \in {} |-> <<>>]
NoCatalog == [isNone |-> FALSE, dict |-> EmptyDict]
NoneCatalog == [isNone |-> TRUE, dict |-> EmptyDict]
Catalog(d) == [isNone |-> FALSE, dict |-> d]

Put(d, k, v) == [x \in DOMAIN d \cup {k} |-> IF x = k THEN v ELSE d[x]]

(* the parsing loop skipping the lines it cannot unpack                    *)
RECURSIVE ParseLines_skip(_, _)
ParseLines_skip(lines, d) ==
    IF lines = <<>> THEN [exc |-> NoExc, dict |-> d]
    ELSE LET fields == Split(Strip(Head(lines)))
         IN  IF Len(fields) # 5 THEN ParseLines_skip(Tail(lines), d)
             ELSE IF fields[5] # "lineages" THEN ParseLines_skip(Tail(lines), d)
             ELSE ParseLines_skip(Tail(lines),
                                  Put(d, fields[1], <<fields[2], fields[3], fields[4]>>))

(* lines 99-107: the parsing loop of download_file_version_document        *)
RECURSIVE ParseLines(_, _)
ParseLines(lines, d) ==
    IF lines = <<>> THEN [exc |-> NoExc, dict |-> d]
    ELSE LET fields == Split(Strip(Head(lines)))
         IN  IF Len(fields) # 5 THEN [exc |-> Exc("ValueError", "unpack"), dict |-> d]
             ELSE IF fields[5] # "lineages" THEN ParseLines(Tail(lines), d)
             ELSE ParseLines(Tail(lines),
                             Put(d, fields[1], <<fields[2], fields[3], fields[4]>>))

(* --------------------------- file system ------------------------------- *)
exists(f, p) == f[p] # Absent

rmtree(f, lineage) ==
    [f EXCEPT ![local_lineage_dir(lineage)] = Absent, ![refseq_path(lineage)] = Absent]

(* urlretrieve: on success the local file holds the served content; when   *)
(* the host cannot be reached it raises urllib.error.URLError before the   *)
(* local file is opened.                                                   *)
urlretrieve(f, net, local_filepath) ==
    IF net = Unreachable
    THEN [fs |-> f, exc |-> Exc(TransportError, "urlopen error")]
    ELSE [fs |-> [f EXCEPT ![local_filepath] = net], exc |-> NoExc]

(* what a call of download_single_file did, kept for the properties       *)
FetchLog(f, url, local_filepath, expected_hash, net, ret, e, fsAfter, observed) ==
    [url |-> url, net |-> net, existedBefore |-> exists(f, local_filepath),
     observed |-> observed, expected |-> expected_hash,
     ret |-> ret, exc |-> e, existsAfter |-> exists(fsAfter, local_filepath)]

Returned(f, url, local_filepath, expected_hash, net, ret, fsAfter, observed) ==
    [fs |-> fsAfter, ret |-> ret, exc |-> NoExc,
     log |-> FetchLog(f, url, local_filepath, expected_hash, net, ret, NoExc,
                      fsAfter, observed)]

Raised(f, url, local_filepath, expected_hash, net, e, fsAfter, observed) ==
    [fs |-> fsAfter, ret |-> "raise", exc |-> e,
     log |-> FetchLog(f, url, local_filepath, expected_hash, net, "raise", e,
                      fsAfter, observed)]

(* download_single_file without the comparison of lines 67-71              *)
download_single_file_nocheck(f, url, local_filepath, expected_hash, net) ==
    LET got == urlretrieve(f, net, local_filepath)
    IN  IF got.exc # NoExc
        THEN Raised(f, url, local_filepath, expected_hash, net, got.exc, got.fs, "")
        ELSE Returned(f, url, local_filepath, expected_hash, net, "True", got.fs,
                      md5(got.fs, local_filepath))

(* download_single_file without the os.remove of line 70                   *)
download_single_file_keep(f, url, local_filepath, expected_hash, net) ==
    LET got == urlretrieve(f, net, local_filepath)
    IN  IF got.exc # NoExc
        THEN Raised(f, url, local_filepath, expected_hash, net, got.exc, got.fs, "")
        ELSE LET observed_hash == md5(got.fs, local_filepath)
             IN  IF observed_hash # expected_hash
                 THEN Raised(f, url, local_filepath, expected_hash, net,
                             UnableToDownload, got.fs, observed_hash)
                 ELSE Returned(f, url, local_filepath, expected_hash, net, "True",
                               got.fs, observed_hash)

(* lines 62-78; the handler of line 75 names the URLError of lines 9-22    *)
download_single_file(f, url, local_filepath, expected_hash, net) ==
    LET got == urlretrieve(f, net, local_filepath)
        handled(e, fsAfter, observed) ==
            IF Catches(URLError, e)
            THEN Returned(f, url, local_filepath, expected_hash, net, "False",
                          fsAfter, observed)
            ELSE Raised(f, url, local_filepath, expected_hash, net, e, fsAfter, observed)
    IN  IF got.exc # NoExc
        THEN handled(got.exc, got.fs, "")
        ELSE LET observed_hash == md5(got.fs, local_filepath)
             IN  IF observed_hash # expected_hash
                 THEN handled(UnableToDownload,
                              [got.fs EXCEPT ![local_filepath] = Absent], observed_hash)
                 ELSE Returned(f, url, local_filepath, expected_hash, net, "True",
                               got.fs, observed_hash)

(* lines 80-109 *)
download_file_version_document(f, netHash, netTsv) ==
    LET got == urlretrieve(f, netHash, hash_download_path)
    IN  IF got.exc # NoExc
        THEN [fs |-> got.fs, cat |-> NoCatalog, urls |-> <<hash_url>>, fetches |-> <<>>,
              exc |-> IF Catches(URLError, got.exc) THEN UnableToDownload ELSE got.exc]
        ELSE LET expected_file_version_hash ==
                     Word(Strip(Readline(HashFileLines(got.fs[hash_download_path]))))
                 r == download_single_file(got.fs, file_version_url,
                                           file_version_download_path,
                                           expected_file_version_hash, netTsv)
                 download_success == r.ret = "True"
                 p == ParseLines(ManifestLines(r.fs[file_version_download_path]), EmptyDict)
                 out(c, e) == [fs |-> r.fs, cat |-> c, urls |-> <<hash_url, file_version_url>>,
                               fetches |-> <<r.log>>, exc |-> e]
             IN  IF r.exc # NoExc THEN out(NoCatalog, r.exc)
                 ELSE IF download_success
                      THEN IF p.exc # NoExc THEN out(NoCatalog, p.exc)
                           ELSE out(Catalog(p.dict), NoExc)
                      ELSE out(NoneCatalog, NoExc)

(* tar.extractall(download_dir): the archive unpacks into the directory    *)
(* named after the dataset, holding its refseq_db.faa.gz                   *)
extractall(f, lineage, archive) ==
    [f EXCEPT ![local_lineage_dir(lineage)] = IsDir,
              ![refseq_path(lineage)] = ArchiveRefseq(f[archive])]

(* lines 116-128: the body of the loop of download_lineage                  *)
download_one(f, cat, lineage, net) ==
    IF cat.isNone
    THEN [fs |-> f, cat |-> cat, exc |-> Exc("TypeError", "NoneType"), urls |-> <<>>,
          fetches |-> <<>>]
    ELSE IF lineage \notin DOMAIN cat.dict
    THEN [fs |-> f, cat |-> cat, exc |-> Exc("KeyError", lineage), urls |-> <<>>,
          fetches |-> <<>>]
    ELSE LET date == cat.dict[lineage][1]
             expected_hash == cat.dict[lineage][2]
             url == remote_url(lineage, date)
             path == download_path(lineage, date)
             r == download_single_file(f, url, path, expected_hash, net)
             download_success == r.ret = "True"
         IN  IF r.exc # NoExc
             THEN [fs |-> r.fs, cat |-> cat, exc |-> r.exc, urls |-> <<url>>,
                   fetches |-> <<r.log>>]
             ELSE IF download_success
             THEN [fs |-> extractall(r.fs, lineage, path),
                   cat |-> Catalog([cat.dict EXCEPT ![lineage] =
                                       Append(@, local_lineage_dir(lineage))]),
                   exc |-> NoExc, urls |-> <<url>>, fetches |-> <<r.log>>]
             ELSE [fs |-> r.fs, cat |-> cat, exc |-> NoExc, urls |-> <<url>>,
                   fetches |-> <<r.log>>]

(* lines 111-128: nets[i] is what the network answers to the i-th request  *)
RECURSIVE download_lineage(_, _, _, _)
download_lineage(f, cat, lineages, nets) ==
    IF lineages = <<>>
    THEN [fs |-> f, cat |-> cat, exc |-> NoExc, urls |-> <<>>, fetches |-> <<>>]
    ELSE LET one == download_one(f, cat, Head(lineages), Head(nets))
         IN  IF one.exc # NoExc THEN one
             ELSE LET rest == download_lineage(one.fs, one.cat, Tail(lineages), Tail(nets))
                  IN  [fs |-> rest.fs, cat |-> rest.cat, exc |-> rest.exc,
                       urls |-> one.urls \o rest.urls,
                       fetches |-> one.fetches \o rest.fetches]

(* os.remove *)
remove(f, p) ==
    IF exists(f, p)
    THEN [fs |-> [f EXCEPT ![p] = Absent], exc |-> NoExc]
    ELSE [fs |-> f, exc |-> Exc("FileNotFoundError", "remove")]

(* lines 45-60: one iteration of the startup loop of __init__              *)
startup_check(f, cat, lineage, net) ==
    LET stay(e) == [fs |-> f, cat |-> cat, exc |-> e, urls |-> <<>>, fetches |-> <<>>]
        keyerror(r) == IF Catches("KeyError", r.exc)
                       THEN [r EXCEPT !.exc = InvalidLineageName] ELSE r
    IN  IF cat.isNone THEN stay(Exc("TypeError", "NoneType"))
        ELSE IF lineage \notin DOMAIN cat.dict THEN keyerror(stay(Exc("KeyError", lineage)))
        ELSE LET expected_hash == cat.dict[lineage][2]
             IN  IF exists(f, refseq_path(lineage))
                 THEN LET observed_hash == md5(f, refseq_path(lineage))
                      IN  IF expected_hash = observed_hash
                          THEN [fs |-> f,
                                cat |-> Catalog([cat.dict EXCEPT ![lineage] =
                                                    Append(@, refseq_path(lineage))]),
                                exc |-> NoExc, urls |-> <<>>, fetches |-> <<>>]
                          ELSE LET rm == remove(rmtree(f, lineage), refseq_path(lineage))
                               IN  keyerror([fs |-> rm.fs, cat |-> cat, exc |-> rm.exc,
                                             urls |-> <<>>, fetches |-> <<>>])
                 ELSE keyerror(download_lineage(f, cat, <<lineage>>, <<net>>))

(* lines 130-137 *)
has_local_lineage(cat, lineage) ==
    IF cat.isNone THEN [ret |-> "raise", exc |-> Exc("TypeError", "NoneType")]
    ELSE IF lineage \notin DOMAIN cat.dict
    THEN [ret |-> "raise", exc |-> InvalidLineageName]
    ELSE IF Len(cat.dict[lineage]) = 4
    THEN [ret |-> "True", exc |-> NoExc]
    ELSE [ret |-> "False", exc |-> NoExc]


(* ------------------------- state and actions --------------------------- *)
(* What the local copy of a dataset looks like to the startup check.       *)
LocalStatus(f, cat, lineage) ==
    IF cat.isNone \/ lineage \notin DOMAIN cat.dict THEN "unknown"
    ELSE IF ~exists(f, refseq_path(lineage)) THEN "absent"
    ELSE IF md5(f, refseq_path(lineage)) = cat.dict[lineage][2] THEN "valid"
    ELSE "corrupt"

(* What the downloaded archive of a dataset looks like on disk.            *)
ArchiveStatus(f, cat, lineage) ==
    IF cat.isNone \/ lineage \notin DOMAIN cat.dict THEN "unknown"
    ELSE LET path == download_path(lineage, cat.dict[lineage][1])
         IN  IF ~exists(f, path) THEN "absent"
             ELSE IF md5(f, path) = cat.dict[lineage][2] THEN "valid"
             ELSE "corrupt"

NoOp ==
    [op |-> "none", arg |-> "", ret |-> "", exc |-> NoExc, urls |-> <<>>,
     fetches |-> <<>>, before |-> NoCatalog, local |-> "unknown",
     archive |-> "unknown", prev |-> [op |-> "none", arg |-> "", ok |-> FALSE]]

(* the last startup check or download_lineage before the coming operation; *)
(* has_local_lineage calls in between do not count                         *)
PrevEnsure ==
    IF lastOp.op \in {"startup", "download_lineage"}
    THEN [op |-> lastOp.op, arg |-> lastOp.arg, ok |-> lastOp.exc = NoExc]
    ELSE IF lastOp.op = "has_local_lineage" THEN lastOp.prev
    ELSE [op |-> "none", arg |-> "", ok |-> FALSE]

Op(name, arg, ret, r, before, f) ==
    [op |-> name, arg |-> arg, ret |-> ret, exc |-> r.exc, urls |-> r.urls,
     fetches |-> r.fetches, before |-> before,
     local |-> LocalStatus(f, before, arg),
     archive |-> ArchiveStatus(f, before, arg),
     prev |-> PrevEnsure]

(* The datasets an operation confirmed present and hash-valid: those whose *)
(* archive it fetched with a matching digest, and the one the startup      *)
(* check found valid on disk.                                              *)
Confirmed(r, before, f, lineage) ==
    {l \in Lineages : \E i \in 1..Len(r.fetches), d \in Dates :
         r.fetches[i].url = remote_url(l, d) /\ r.fetches[i].ret = "True"}
    \cup (IF r.exc = NoExc /\ r.urls = <<>> /\ LocalStatus(f, before, lineage) = "valid"
          THEN {lineage} ELSE {})

EmptyFS == [p \in Paths |-> Absent]

DefaultSet == {default_lineage[i] : i \in 1..Len(default_lineage)}

(* the download directory as earlier runs or the user may have left it     *)
InitFS ==
    {EmptyFS} \cup
    { [p \in Paths |->
          IF p = download_dir THEN IsDir
          ELSE IF \E l \in DefaultSet : p = refseq_path(l) /\ c[l] # Absent
               THEN c[CHOOSE l \in DefaultSet : p = refseq_path(l)]
          ELSE IF \E l \in DefaultSet : p = local_lineage_dir(l) /\ c[l] # Absent
               THEN IsDir
          ELSE Absent] : c \in [DefaultSet -> {Absent, "tarA", "faaA"}] }

Init ==
    /\ fs \in InitFS
    /\ lineage_description = NoCatalog
    /\ pc = "start"
    /\ idx = 0
    /\ runs = 0
    /\ calls = 0
    /\ lastOp = NoOp
    /\ confirmed = {}
    /\ text = <<>>

(* lines 41-42 *)
mkdir(f) == IF exists(f, download_dir) THEN f ELSE [f EXCEPT ![download_dir] = IsDir]

(* lines 34-43: a new process constructs a Downloader                      *)
Construct(netHash, netTsv) ==
    /\ pc \in {"start", "ready", "failed"}
    /\ runs < MaxRuns
    /\ LET r == download_file_version_document(mkdir(fs), netHash, netTsv)
       IN  /\ fs' = r.fs
           /\ lineage_description' = r.cat
           /\ pc' = IF r.exc # NoExc THEN "failed" ELSE "loop"
           /\ idx' = IF r.exc # NoExc THEN 0 ELSE 1
           /\ lastOp' = Op("load", "", "", r, NoCatalog, fs)
    /\ runs' = runs + 1
    /\ calls' = 0
    /\ confirmed' = {}
    /\ UNCHANGED text

(* lines 44-60: one iteration of the startup loop                          *)
Startup(net) ==
    /\ pc = "loop"
    /\ LET lineage == default_lineage[idx]
           r == startup_check(fs, lineage_description, lineage, net)
       IN  /\ fs' = r.fs
           /\ lineage_description' = r.cat
           /\ pc' = IF r.exc # NoExc THEN "failed"
                    ELSE IF idx = Len(default_lineage) THEN "ready" ELSE "loop"
           /\ idx' = IF r.exc # NoExc \/ idx = Len(default_lineage) THEN 0 ELSE idx + 1
           /\ lastOp' = Op("startup", lineage, "", r, lineage_description, fs)
           /\ confirmed' = confirmed \cup Confirmed(r, lineage_description, fs, lineage)
    /\ UNCHANGED <<runs, calls, text>>

(* lines 111-128: a caller invokes download_lineage on the Downloader      *)
DownloadLineage(arg, nets) ==
    /\ pc = "ready"
    /\ calls < MaxCalls
    /\ LET lineages == IF arg = "None" THEN default_lineage ELSE <<arg>>
           r == download_lineage(fs, lineage_description, lineages, nets)
       IN  /\ fs' = r.fs
           /\ lineage_description' = r.cat
           /\ lastOp' = Op("download_lineage", arg, "", r, lineage_description, fs)
           /\ confirmed' = confirmed \cup Confirmed(r, NoCatalog, fs, arg)
    /\ calls' = calls + 1
    /\ UNCHANGED <<pc, idx, runs, text>>

(* lines 130-137: a caller invokes has_local_lineage                       *)
HasLocalLineage(arg) ==
    /\ pc = "ready"
    /\ LET r == has_local_lineage(lineage_description, arg)
       IN  lastOp' = Op("has_local_lineage", arg, r.ret,
                        [exc |-> r.exc, urls |-> <<>>, fetches |-> <<>>],
                        lineage_description, fs)
    /\ UNCHANGED <<fs, lineage_description, pc, idx, runs, calls, confirmed, text>>

NetHash == HashFiles \cup {Unreachable}
NetTsv == Manifests \cup {Unreachable}
NetArchive == Archives \cup {Unreachable}

Next ==
    \/ \E h \in NetHash, m \in NetTsv : Construct(h, m)
    \/ \E n \in NetArchive : Startup(n)
    \/ \E l \in Lineages : \E n \in NetArchive : DownloadLineage(l, <<n>>)
    \/ \E ns \in [1..Len(default_lineage) -> NetArchive] : DownloadLineage("None", ns)
    \/ \E l \in Lineages : HasLocalLineage(l)

Spec == Init /\ [][Next]_vars


(* ---------------- manifest parsing over bounded texts ------------------ *)
CandidateLines ==
    { Row(A, "h1", "prokaryota", "lineages"),
      Row(A, "h2", "archaea", "lineages"),
      Row(B, "h1", "prokaryota", "lineages"),
      Row(B, "h2", "placement", "placement_files"),
      <<B, "\t", D1, "\t", "h1", "\t", "lineages", "\n">>,
      <<T, " ", D1, " ", "h1", " ", "prokaryota", " ", "extra", " ", "other", "\n">>,
      <<"\n">>,
      <<" ", T, " ", " ", D1, "\t", "h2", " ", "prokaryota", " ", "lineages", " ", "\n">> }

RECURSIVE SeqsUpTo(_, _)
SeqsUpTo(S, n) ==
    IF n = 0 THEN {<<>>}
    ELSE LET shorter == SeqsUpTo(S, n - 1)
         IN  shorter \cup {Append(q, x) : q \in shorter, x \in S}

Texts == SeqsUpTo(CandidateLines, MaxLines)

InitParse ==
    /\ fs = EmptyFS
    /\ lineage_description = NoCatalog
    /\ pc = "start"
    /\ idx = 0
    /\ runs = 0
    /\ calls = 0
    /\ lastOp = NoOp
    /\ confirmed = {}
    /\ text \in Texts

(* download_file_version_document on a manifest that verifies              *)
LoadManifest == Construct(TextHashFile, TextManifest)

NextParse == LoadManifest

SpecParse == InitParse /\ [][NextParse]_vars


(* ---------------------------- properties ------------------------------- *)
Fetches == {lastOp.fetches[i] : i \in 1..Len(lastOp.fetches)}

(* the local path a fetch wrote to *)
LocalOf(url) ==
    IF url = file_version_url THEN file_version_download_path
    ELSE download_path(url[2], url[3])

Keys(cat) == DOMAIN cat.dict

Entry(cat, l) == cat.dict[l]

(* the step extracted the archive of l into its dataset directory *)
ExtractedInStep(l) ==
    /\ fs'[local_lineage_dir(l)] = IsDir
    /\ \/ fs'[local_lineage_dir(l)] # fs[local_lineage_dir(l)]
       \/ fs'[refseq_path(l)] # fs[refseq_path(l)]

(* the step appended the dataset directory to the entry of l, as           *)
(* download_lineage does                                                   *)
MarkedInStep(l) ==
    /\ l \in Keys(lineage_description) \cap Keys(lineage_description')
    /\ Entry(lineage_description', l) =
           Append(Entry(lineage_description, l), local_lineage_dir(l))

VerifiedFetch(l) ==
    \E i \in 1..Len(lastOp'.fetches) :
        LET g == lastOp'.fetches[i]
        IN  /\ g.url = remote_url(l, Entry(lineage_description, l)[1])
            /\ g.ret = "True"
            /\ g.net # Unreachable
            /\ g.observed = g.expected
            /\ g.expected = Entry(lineage_description, l)[2]
            /\ md5(fs', LocalOf(g.url)) = g.expected

(* C1: download_lineage (called directly or by the startup loop) extracts  *)
(* an archive and appends the local path to the entry of a dataset only    *)
(* in a step in which download_single_file returned True for that          *)
(* dataset's archive, its observed digest being equal to the entry's       *)
(* expected hash; no entry is marked and no directory extracted for an     *)
(* archive whose digest differed.                                          *)
C1_MarkOnlyAfterVerified ==
    [][ lastOp'.op \in {"download_lineage", "startup"} =>
            \A l \in Lineages :
                (MarkedInStep(l) \/ ExtractedInStep(l)) =>
                    (l \in Keys(lineage_description) /\ VerifiedFetch(l)) ]_vars

W_C1 ==
    /\ lastOp.op = "download_lineage"
    /\ lastOp.arg = B
    /\ \E g \in Fetches : g.url = remote_url(B, D1) /\ g.ret = "True"
    /\ Entry(lineage_description, B) = Append(Entry(lastOp.before, B), local_lineage_dir(B))
    /\ fs[refseq_path(B)] = ArchiveRefseq(fs[download_path(B, D1)])

(* C2: once construction is over, has_local_lineage(name) is True exactly  *)
(* for the datasets that were confirmed present and hash-valid by the      *)
(* startup check or by a successful download_lineage.                      *)
CE_C2 ==
    pc = "ready" =>
        \A l \in Keys(lineage_description) :
            (has_local_lineage(lineage_description, l).ret = "True") <=> (l \in confirmed)

(* C3: an ensure operation on a dataset whose cached copy is valid, run    *)
(* right after an ensure of the same dataset, makes no network request     *)
(* and leaves the entry unchanged.                                         *)
CE_C3 ==
    /\ (lastOp.op = "startup" /\ lastOp.local = "valid") =>
           /\ lastOp.urls = <<>>
           /\ has_local_lineage(lineage_description, lastOp.arg).ret = "True"
    /\ (/\ lastOp.op = "download_lineage"
        /\ lastOp.arg \in Keys(lastOp.before)
        /\ lastOp.archive = "valid"
        /\ lastOp.prev = [op |-> "download_lineage", arg |-> lastOp.arg, ok |-> TRUE]) =>
           /\ lastOp.urls = <<>>
           /\ lineage_description = lastOp.before

(* C4: a startup check that finds the local copy corrupt deletes the       *)
(* stale directory and file without failing on an absent one, downloads    *)
(* the dataset again, and if that download succeeds the dataset is marked  *)
(* available with a matching local digest.                                 *)
CE_C4 ==
    (lastOp.op = "startup" /\ lastOp.local = "corrupt") =>
        /\ lastOp.exc.cls # "FileNotFoundError"
        /\ lastOp.urls = <<remote_url(lastOp.arg, Entry(lastOp.before, lastOp.arg)[1])>>
        /\ (\E g \in Fetches : g.ret = "True") =>
               /\ has_local_lineage(lineage_description, lastOp.arg).ret = "True"
               /\ ArchiveStatus(fs, lineage_description, lastOp.arg) = "valid"

(* C5: in download_single_file, a transfer that succeeds with a digest     *)
(* different from the expected one deletes the downloaded file and raises  *)
(* the fatal error instead of returning a boolean; True is returned only   *)
(* when the digest equals the expected one, and then the file is kept.     *)
C5_MismatchDeletesAndRaises ==
    \A g \in Fetches :
        /\ (g.net # Unreachable /\ md5sum(g.net) # g.expected) =>
               /\ g.ret = "raise"
               /\ g.exc = UnableToDownload
               /\ lastOp.exc = UnableToDownload
               /\ ~g.existsAfter
               /\ ~exists(fs, LocalOf(g.url))
        /\ g.ret = "True" =>
               /\ g.net # Unreachable
               /\ md5sum(g.net) = g.expected
               /\ g.existsAfter
               /\ fs[LocalOf(g.url)] = g.net

W_C5 ==
    \E g \in Fetches :
        /\ g.net # Unreachable
        /\ md5sum(g.net) # g.expected
        /\ g.existedBefore
        /\ ~exists(fs, LocalOf(g.url))
        /\ lastOp.exc = UnableToDownload

(* C6: in download_single_file, when the transport cannot reach the host   *)
(* the function returns False, does not raise, and no file is left at the  *)
(* local path, even if one existed before the call.                        *)
CE_C6 ==
    \A g \in Fetches :
        g.net = Unreachable =>
            /\ g.ret = "False"
            /\ g.exc = NoExc
            /\ ~g.existsAfter

(* C7: when the manifest hash file or the manifest cannot be reached,      *)
(* construction fails with the 'Unable to download necessary files' error  *)
(* and never enters the startup loop with a None catalog.                  *)
CE_C7 ==
    /\ (/\ lastOp.op = "load"
        /\ \/ lastOp.urls = <<hash_url>>
           \/ \E g \in Fetches : g.net = Unreachable) =>
           /\ pc = "failed"
           /\ lastOp.exc = UnableToDownload
    /\ pc = "loop" => ~lineage_description.isNone

(* C8: with a loaded catalog, has_local_lineage, download_lineage and the  *)
(* startup check given a name absent from the catalog fail with the        *)
(* 'invalid lineage name' error, request nothing and leave the catalog     *)
(* unchanged.                                                              *)
CE_C8 ==
    (/\ lastOp.op \in {"has_local_lineage", "download_lineage", "startup"}
     /\ lastOp.arg \in Lineages
     /\ ~lastOp.before.isNone
     /\ lastOp.arg \notin Keys(lastOp.before)) =>
        /\ lastOp.exc = InvalidLineageName
        /\ lastOp.urls = <<>>
        /\ lineage_description = lastOp.before

(* C9: when the archive fetch of download_lineage(name) fails, the entry   *)
(* of name and all other entries are unchanged, nothing is extracted, the  *)
(* fetch is made once, and in the unreachable case download_lineage        *)
(* returns without raising.                                                *)
CE_C9 ==
    [][ (/\ lastOp'.op = "download_lineage"
         /\ lastOp'.arg \in Keys(lineage_description)
         /\ \E i \in 1..Len(lastOp'.fetches) : lastOp'.fetches[i].ret # "True") =>
            /\ lineage_description' = lineage_description
            /\ ~ExtractedInStep(lastOp'.arg)
            /\ Len(lastOp'.urls) = 1
            /\ \A i \in 1..Len(lastOp'.fetches) :
                   lastOp'.fetches[i].net = Unreachable => lastOp'.exc = NoExc ]_vars

(* fields of a manifest line and the lines kept by the filter *)
LineFields(line) == Split(Strip(line))

Loaded == ManifestLines(fs[file_version_download_path])

LineageRows(lines) ==
    {i \in 1..Len(lines) : LineFields(lines[i])[5] = "lineages"}

(* C10: for a verified manifest, download_file_version_document fails      *)
(* when some line, whatever its fifth field, does not have exactly five    *)
(* whitespace-separated fields, and otherwise returns a catalog whose keys *)
(* are exactly the names of the lines whose fifth field is "lineages",     *)
(* each mapped to the (date, hash, category) of the (last) such line.      *)
C10_ManifestParsing ==
    (/\ lastOp.op = "load"
     /\ \E g \in Fetches : g.url = file_version_url /\ g.ret = "True") =>
        LET lines == Loaded
            bad == \E i \in 1..Len(lines) : Len(LineFields(lines[i])) # 5
        IN  IF bad
            THEN /\ lastOp.exc.cls = "ValueError"
                 /\ pc = "failed"
            ELSE /\ lastOp.exc = NoExc
                 /\ ~lineage_description.isNone
                 /\ Keys(lineage_description) =
                        {LineFields(lines[i])[1] : i \in LineageRows(lines)}
                 /\ \A k \in Keys(lineage_description) :
                        \E i \in LineageRows(lines) :
                            /\ LineFields(lines[i])[1] = k
                            /\ Entry(lineage_description, k) =
                                   SubSeq(LineFields(lines[i]), 2, 4)
                            /\ \A j \in LineageRows(lines) :
                                   LineFields(lines[j])[1] = k => j <= i

W_C10 ==
    /\ lastOp.op = "load"
    /\ lastOp.exc = NoExc
    /\ Len(text) = 2
    /\ LineFields(text[1])[5] = "lineages"
    /\ LineFields(text[2])[5] # "lineages"
    /\ Keys(lineage_description) = {LineFields(text[1])[1]}

====
